---- MODULE Spec2Model ----
(***************************************************************************)
(* Federated-learning harness (hal-lab-u-tokyo/Flower_mockup).             *)
(*                                                                         *)
(* The module models                                                       *)
(*   - the aggregation functions of src/src/server_app/strategy/           *)
(*     aggregate.py (aggregate, aggregate_qffl,                            *)
(*     aggregate_and_spreadout),                                           *)
(*   - FlowerFaceClient.fit / FlowerFaceRayClient.fit of                   *)
(*     src/src/client_app/face_client.py,                                  *)
(*   - the strategy configuration of the two server scripts, and           *)
(*   - the round orchestrator of spec.md 4.3 / 5 / 7 that drives them.     *)
(*                                                                         *)
(* Numbers: a layer is a one-element array.  Its value is an exact         *)
(* rational, or one of the IEEE specials (nan, +inf, -inf) that numpy      *)
(* produces when an array is divided by zero.  Rounding of finite          *)
(* floating-point results is not modelled.                                 *)
(***************************************************************************)
EXTENDS Integers, Sequences, FiniteSets, TLC

VARIABLES
    aggIn, aggOut,                  \* aggregate(): argument, outcome
    qIn, qOut,                      \* aggregate_qffl(): arguments, outcome
    sIn, sOut,                      \* aggregate_and_spreadout(): arguments, outcome
    fitKind, fitIns, fitNet, fitOut,\* Client.fit(): class, FitIns, self.net, outcome
    server, numExamples,            \* which server script runs; len(trainset) per client
    phase, rnd, globalParams,       \* orchestrator state, round number, global ParameterSet
    sent, pending, results, failed, \* per-round dispatch and collection
    aggRound, lastAggOut            \* last round aggregated, what aggregate returned

aggVars == <<aggIn, aggOut>>
qVars == <<qIn, qOut>>
spreadVars == <<sIn, sOut>>
fitVars == <<fitKind, fitIns, fitNet, fitOut>>
orchVars == <<server, numExamples, phase, rnd, globalParams, sent, pending,
              results, failed, aggRound, lastAggOut>>
vars == <<aggIn, aggOut, qIn, qOut, sIn, sOut, fitKind, fitIns, fitNet, fitOut,
          server, numExamples, phase, rnd, globalParams, sent, pending,
          results, failed, aggRound, lastAggOut>>

\* Value of a variable that the running specification does not use.
Idle == [outcome |-> "idle"]
\* Outcome of a function that has not been called yet.
NotCalled == [outcome |-> "not_called"]

AggIdle == aggIn = Idle /\ aggOut = Idle
QfflIdle == qIn = Idle /\ qOut = Idle
SpreadIdle == sIn = Idle /\ sOut = Idle
FitIdle == fitKind = Idle /\ fitIns = Idle /\ fitNet = Idle /\ fitOut = Idle
OrchIdle ==
    /\ server = Idle /\ numExamples = Idle /\ phase = Idle /\ rnd = Idle
    /\ globalParams = Idle /\ sent = Idle /\ pending = Idle
    /\ results = Idle /\ failed = Idle /\ aggRound = Idle /\ lastAggOut = Idle

-----------------------------------------------------------------------------
(* Bounds of the model.                                                    *)

MaxClients == 2     \* an aggregation call receives 0..MaxClients client results
MaxLayers == 3      \* a ParameterSet has 1..MaxLayers layers
NumClients == 2     \* --num_clients of a server run
NumRounds == 2      \* --num_rounds of a server run

-----------------------------------------------------------------------------
(* numpy arithmetic on one-element float arrays.                           *)
(* Each operation binds its operands once (x \in {a}) and then works on    *)
(* the bound values.                                                       *)

Abs(x) == IF x < 0 THEN -x ELSE x

RECURSIVE GCD(_, _)
GCD(a, b) == IF b = 0 THEN a ELSE GCD(b, a % b)

NaN == [k |-> "nan", n |-> 0, d |-> 1]
PInf == [k |-> "pinf", n |-> 0, d |-> 1]
NInf == [k |-> "ninf", n |-> 0, d |-> 1]

\* The finite value n/d (d # 0), in lowest terms with a positive denominator.
Fin(n, d) ==
    CHOOSE r \in
        {[k |-> "fin", n |-> (s * x) \div g, d |-> (s * y) \div g] :
            <<x, y, s, g>> \in
                {<<x, y, IF y < 0 THEN -1 ELSE 1, GCD(Abs(x), Abs(y))>> :
                    x \in {n}, y \in {d}}} : TRUE

Num(i) == Fin(i, 1)

Neg(v) ==
    CHOOSE r \in
        {CASE x.k = "fin" -> Fin(-x.n, x.d)
           [] x.k = "pinf" -> NInf
           [] x.k = "ninf" -> PInf
           [] OTHER -> NaN : x \in {v}} : TRUE

\* array * int
Mul(v, m) ==
    CHOOSE r \in
        {CASE x.k = "fin" -> Fin(x.n * y, x.d)
           [] x.k = "nan" -> NaN
           [] y = 0 -> NaN
           [] y > 0 -> x
           [] OTHER -> Neg(x) : x \in {v}, y \in {m}} : TRUE

\* np.add / +=
Add(a, b) ==
    CHOOSE r \in
        {CASE x.k = "nan" \/ y.k = "nan" -> NaN
           [] x.k = "fin" /\ y.k = "fin" -> Fin(x.n * y.d + y.n * x.d, x.d * y.d)
           [] x.k = "fin" -> y
           [] y.k = "fin" -> x
           [] x.k = y.k -> x
           [] OTHER -> NaN : x \in {a}, y \in {b}} : TRUE

Sub(a, b) == Add(a, Neg(b))

\* array / number: numpy divides by zero without raising (0/0 = nan, x/0 = +-inf)
DivInt(v, m) ==
    CHOOSE r \in
        {CASE x.k = "nan" -> NaN
           [] x.k = "fin" /\ y # 0 -> Fin(x.n, x.d * y)
           [] x.k = "fin" /\ x.n = 0 -> NaN
           [] x.k = "fin" /\ x.n > 0 -> PInf
           [] x.k = "fin" -> NInf
           [] y >= 0 -> x
           [] OTHER -> Neg(x) : x \in {v}, y \in {m}} : TRUE

-----------------------------------------------------------------------------
(* Sequence helpers.                                                       *)

RECURSIVE SumTo(_, _)
SumTo(s, k) == IF k = 0 THEN 0 ELSE SumTo(s, k - 1) + s[k]

\* sum(s)
SumSeq(s) == SumTo(s, Len(s))

RECURSIVE ReduceAddTo(_, _)
ReduceAddTo(s, k) == IF k = 1 THEN s[1] ELSE Add(ReduceAddTo(s, k - 1), s[k])

\* functools.reduce(np.add, s) for a non-empty s: left fold in list order
ReduceAdd(s) == ReduceAddTo(s, Len(s))

\* number of tuples zip(*ss) yields: the shortest argument; none for no argument
ZipLen(ss) ==
    IF ss = <<>> THEN 0
    ELSE CHOOSE m \in {Len(ss[c]) : c \in 1..Len(ss)} :
             \A c \in 1..Len(ss) : m <= Len(ss[c])

\* all sequences of length lo..hi over S
SeqsOf(S, lo, hi) == UNION {[1..k -> S] : k \in lo..hi}

-----------------------------------------------------------------------------
(* aggregate.py                                                            *)

\* aggregate() dividing by the number of clients instead of the number of examples
aggregate_per_client(rs) ==
    LET weighted_weights ==
            [c \in 1..Len(rs) |->
                [i \in 1..Len(rs[c].w) |-> Mul(rs[c].w[i], rs[c].n)]]
        weights_prime ==
            [i \in 1..ZipLen(weighted_weights) |->
                DivInt(ReduceAdd([c \in 1..Len(rs) |-> weighted_weights[c][i]]),
                       Len(rs))]
    IN  [outcome |-> "returned", value |-> weights_prime]

\* aggregate(results): results is a sequence of [w |-> layers, n |-> num_examples]
aggregate(rs) ==
    LET num_examples_total == SumSeq([c \in 1..Len(rs) |-> rs[c].n])
        weighted_weights ==
            [c \in 1..Len(rs) |->
                [i \in 1..Len(rs[c].w) |-> Mul(rs[c].w[i], rs[c].n)]]
        weights_prime ==
            [i \in 1..ZipLen(weighted_weights) |->
                DivInt(ReduceAdd([c \in 1..Len(rs) |-> weighted_weights[c][i]]),
                       num_examples_total)]
    IN  [outcome |-> "returned", value |-> weights_prime]

Min(a, b) == IF a < b THEN a ELSE b

\* aggregate_qffl(parameters, deltas, hs_fll)
aggregate_qffl(parameters, deltas, hs_fll) ==
    LET demominator == SumSeq(hs_fll)
        scaled_deltas ==
            [c \in 1..Len(deltas) |->
                [i \in 1..Len(deltas[c]) |->
                    DivInt(Mul(deltas[c][i], 1), demominator)]]
    IN  IF deltas = <<>>
        THEN [outcome |-> "IndexError"]             \* deltas[0]
        ELSE IF \E j \in 2..Len(deltas) : Len(deltas[j]) < Len(deltas[1])
        THEN [outcome |-> "IndexError"]             \* scaled_deltas[j][i]
        ELSE LET updates ==
                     [i \in 1..Len(deltas[1]) |->
                         ReduceAdd([c \in 1..Len(deltas) |-> scaled_deltas[c][i]])]
                 new_parameters ==
                     [i \in 1..Min(Len(parameters), Len(updates)) |->
                         Mul(Sub(parameters[i], updates[i]), 1)]
             IN  [outcome |-> "returned", value |-> new_parameters]

\* embeddings[cid, :] = row, on a matrix m of num_clients rows (indexed from 0)
\* and num_features columns.  numpy counts a negative index from the end,
\* raises IndexError for an index outside -num_clients..num_clients-1, repeats
\* a one-element row over the columns and raises ValueError for a row of any
\* other length than num_features.
SetRow(m, num_clients, num_features, cid, row) ==
    IF cid >= num_clients \/ cid < -num_clients
    THEN [outcome |-> "IndexError"]
    ELSE IF Len(row) \notin {1, num_features}
    THEN [outcome |-> "ValueError"]
    ELSE [outcome |-> "ok",
          m |-> [m EXCEPT ![IF cid < 0 THEN cid + num_clients ELSE cid] =
                    [j \in 1..num_features |->
                        IF Len(row) = 1 THEN row[1] ELSE row[j]]]]

\* embeddings after the first k iterations of "for weights, _, cid in results"
RECURSIVE EmbeddingsTo(_, _, _, _)
EmbeddingsTo(rs, k, num_clients, num_features) ==
    IF k = 0
    THEN [outcome |-> "ok",
          m |-> [id \in 0..(num_clients - 1) |->
                    [j \in 1..num_features |-> Num(0)]]]
    ELSE LET before == EmbeddingsTo(rs, k - 1, num_clients, num_features)
         IN  IF before.outcome # "ok"
             THEN before
             ELSE SetRow(before.m, num_clients, num_features,
                         rs[k].cid, rs[k].w[Len(rs[k].w)])

\* One SGD step of learning rate lr on SpreadoutRegularizer(nu)(embeddings,
\* out_dims), and F.normalize of a matrix.  Their arithmetic (a gradient, a
\* square root) is not computed: the result is the term naming the operation
\* and its operands.
sgd_step(embeddings, nu, lr, out_dims) ==
    [op |-> "SGD.step", regularizer |-> "SpreadoutRegularizer", nu |-> nu,
     lr |-> lr, out_dims |-> out_dims, of |-> embeddings]

normalize(embeddings) == [op |-> "F.normalize", of |-> embeddings]

\* aggregate_and_spreadout() returning the averaged layers without the
\* embedding matrix
aggregate_and_spreadout_no_append(rs, num_clients, num_features, nu, lr) ==
    LET built == EmbeddingsTo(rs, Len(rs), num_clients, num_features)
    IN  IF built.outcome # "ok"
        THEN [outcome |-> built.outcome]
        ELSE
        LET embeddings == normalize(sgd_step(built.m, nu, lr, num_clients))
            num_examples_total == SumSeq([c \in 1..Len(rs) |-> rs[c].n])
            feature_weights ==
                [c \in 1..Len(rs) |->
                    [i \in 1..(Len(rs[c].w) - 1) |-> Mul(rs[c].w[i], rs[c].n)]]
            weights_prime ==
                [i \in 1..ZipLen(feature_weights) |->
                    DivInt(ReduceAdd([c \in 1..Len(rs) |-> feature_weights[c][i]]),
                           num_examples_total)]
        IN  [outcome |-> "returned", matrix |-> built.m,
             value |-> weights_prime, embeddings |-> embeddings]

\* aggregate_and_spreadout(results, num_clients, num_features, nu, lr): results
\* is a sequence of [w |-> layers, n |-> num_examples, cid |-> client id]; the
\* last layer of w is a row of numbers, the others are one-element arrays.
\* The result names the outcome, the matrix line 76-78 built (matrix) and the
\* two components returned (value, embeddings).
aggregate_and_spreadout(rs, num_clients, num_features, nu, lr) ==
    LET built == EmbeddingsTo(rs, Len(rs), num_clients, num_features)
    IN  IF built.outcome # "ok"
        THEN [outcome |-> built.outcome]
        ELSE
        LET embeddings == normalize(sgd_step(built.m, nu, lr, num_clients))
            num_examples_total == SumSeq([c \in 1..Len(rs) |-> rs[c].n])
            feature_weights ==
                [c \in 1..Len(rs) |->
                    [i \in 1..(Len(rs[c].w) - 1) |-> Mul(rs[c].w[i], rs[c].n)]]
            weights_prime ==
                [i \in 1..ZipLen(feature_weights) |->
                    DivInt(ReduceAdd([c \in 1..Len(rs) |-> feature_weights[c][i]]),
                           num_examples_total)]
        IN  [outcome |-> "returned", matrix |-> built.m,
             value |-> Append(weights_prime, embeddings),
             embeddings |-> embeddings]

-----------------------------------------------------------------------------
(* face_client.py                                                          *)

\* The keys fit() reads unconditionally, in the order it reads them.
FitKeys == <<"local_epochs", "batch_size", "lr", "weight_decay", "criterion_name">>

\* fit(self, ins) of FlowerFaceClient (kind = "FlowerFaceClient") and of
\* FlowerFaceRayClient (kind = "FlowerFaceRayClient").
\*   net      self.net's weights when fit is called
\*   ins      [parameters |-> weights, config |-> [has |-> keys present,
\*             criterion_name, scale, margin |-> values of those keys]]
\*   trained  the weights train() leaves in self.net
\*   n        len(trainset)
\* The result names the outcome, the collaborator calls made in order, the
\* weights self.net holds afterwards and the FitRes returned.
fit(kind, net, ins, trained, n) ==
    LET cfg == ins.config
        loaded == IF kind = "FlowerFaceRayClient"
                  THEN <<"set_weights", "load_federated_dataset", "DataLoader">>
                  ELSE <<"set_weights", "DataLoader">>
        raised(e, st, w) == [outcome |-> e, steps |-> st, net |-> w]
    IN  IF \E i \in 1..Len(FitKeys) : FitKeys[i] \notin cfg.has
        THEN raised("KeyError", <<>>, net)
        ELSE IF cfg.criterion_name = "ArcFace" /\ "scale" \notin cfg.has
        THEN raised("KeyError", loaded, ins.parameters)
        ELSE IF cfg.criterion_name = "ArcFace" /\ cfg.scale = "None"
        THEN raised("AssertionError", loaded, ins.parameters)
        ELSE IF cfg.criterion_name = "ArcFace" /\ "margin" \notin cfg.has
        THEN raised("KeyError", loaded, ins.parameters)
        ELSE IF cfg.criterion_name = "ArcFace" /\ cfg.margin = "None"
        THEN raised("AssertionError", loaded, ins.parameters)
        ELSE IF cfg.criterion_name \notin {"CrossEntropy", "ArcFace"}
        THEN raised("UnboundLocalError", loaded, ins.parameters)  \* criterion
        ELSE [outcome |-> "returned",
              steps |-> loaded \o <<"train", "get_weights">>,
              net |-> trained,
              res |-> [parameters |-> trained, num_examples |-> n]]

-----------------------------------------------------------------------------
(* Specification of aggregate() as a pure function.                        *)

LayerValues == {Num(2), Num(4)}
SampleCounts == {0, 1, 3}
ParamSets == SeqsOf(LayerValues, 1, MaxLayers)
ClientResults == [w : ParamSets, n : SampleCounts]

InitAgg ==
    /\ \E k \in 0..MaxClients : aggIn \in [1..k -> ClientResults]
    /\ aggOut = NotCalled
    /\ QfflIdle /\ SpreadIdle /\ FitIdle /\ OrchIdle

CallAggregate ==
    /\ aggOut = NotCalled
    /\ aggOut' = aggregate(aggIn)
    /\ UNCHANGED <<aggIn, qVars, spreadVars, fitVars, orchVars>>

NextAgg == CallAggregate

SpecAgg == InitAgg /\ [][NextAgg]_vars

AggCalled == aggOut # NotCalled /\ aggOut # Idle

\* The layer counts of the client ParameterSets of rs are all the same.
SameLayerCounts(rs) ==
    \A c1, c2 \in 1..Len(rs) : Len(rs[c1].w) = Len(rs[c2].w)

\* sum over clients of n_c * layer_i_c as an unreduced fraction <<num, den>>,
\* computed by integer arithmetic only
RECURSIVE WeightedSum(_, _, _)
WeightedSum(rs, i, c) ==
    IF c = 0 THEN <<0, 1>>
    ELSE LET p == WeightedSum(rs, i, c - 1)
             v == rs[c].w[i]
         IN  <<p[1] * v.d + rs[c].n * v.n * p[2], p[2] * v.d>>

\* v is the exact value of (sum_c n_c * layer_i_c) / (sum_c n_c)
IsWeightedMean(v, rs, i) ==
    LET ws == WeightedSum(rs, i, Len(rs))
        total == SumSeq([c \in 1..Len(rs) |-> rs[c].n])
    IN  /\ v.k = "fin"
        /\ v.n * ws[2] * total = ws[1] * v.d

\* C2: for a non-empty list of structurally identical ParameterSets with every
\* sample count positive, aggregate returns a ParameterSet with the same number
\* of layers whose layer i is the sample-count-weighted mean of the clients'
\* layer i.
C2_WeightedAverage ==
    (/\ AggCalled
     /\ aggIn # <<>>
     /\ SameLayerCounts(aggIn)
     /\ \A c \in 1..Len(aggIn) : aggIn[c].n > 0)
    => /\ aggOut.outcome = "returned"
       /\ Len(aggOut.value) = Len(aggIn[1].w)
       /\ \A i \in 1..Len(aggOut.value) : IsWeightedMean(aggOut.value[i], aggIn, i)

\* [2.0] with n=1 and [4.0] with n=3 have been aggregated to [3.5]
C2_Witness ==
    /\ AggCalled
    /\ aggIn = << [w |-> <<Num(2)>>, n |-> 1], [w |-> <<Num(4)>>, n |-> 3] >>
    /\ aggOut.outcome = "returned"
    /\ aggOut.value = <<Fin(7, 2)>>

\* C3: aggregate on a non-empty list whose sample counts are all 0 ends in the
\* zero-denominator error and returns no ParameterSet.
C3_ZeroDenominatorGuard ==
    (/\ AggCalled
     /\ aggIn # <<>>
     /\ \A c \in 1..Len(aggIn) : aggIn[c].n = 0)
    => aggOut.outcome = "ZeroDivisionError"

\* C4: aggregate on client ParameterSets whose layer counts differ fails with
\* ShapeMismatchError and returns no ParameterSet.
C4_ShapeGuard ==
    (AggCalled /\ ~SameLayerCounts(aggIn))
    => aggOut.outcome = "ShapeMismatchError"

-----------------------------------------------------------------------------
(* Specification of aggregate_and_spreadout() as a pure function.          *)

\* final layers of a client: its class embedding
EmbeddingRows == {<<Num(1), Num(0)>>, <<Num(0), Num(1)>>}
FeatureCounts == {2, 3}
SpreadParamSets ==
    {body \o <<row>> : body \in SeqsOf(LayerValues, 0, 1), row \in EmbeddingRows}
\* client ids reach one below and, for the smaller matrices, above the rows
SpreadResults ==
    [w : SpreadParamSets, n : SampleCounts, cid : (-1)..(MaxClients - 1)]

InitSpread ==
    /\ \E k \in 0..MaxClients :
         \E rs \in [1..k -> SpreadResults] :
           \E nc \in 1..MaxClients, nf \in FeatureCounts :
              sIn = [results |-> rs, num_clients |-> nc, num_features |-> nf,
                     nu |-> "nu", lr |-> "lr"]
    /\ sOut = NotCalled
    /\ AggIdle /\ QfflIdle /\ FitIdle /\ OrchIdle

CallAggregateAndSpreadout ==
    /\ sOut = NotCalled
    /\ sOut' = aggregate_and_spreadout(sIn.results, sIn.num_clients,
                                       sIn.num_features, sIn.nu, sIn.lr)
    /\ UNCHANGED <<sIn, aggVars, qVars, fitVars, orchVars>>

NextSpread == CallAggregateAndSpreadout

SpecSpread == InitSpread /\ [][NextSpread]_vars

SpreadCalled == sOut # NotCalled /\ sOut # Idle

\* weights[-1] of the k-th result
FinalLayer(rs, k) == rs[k].w[Len(rs[k].w)]

\* the rows of the matrix are 0..num_clients-1
InRowRange(cid) == cid \in 0..(sIn.num_clients - 1)

\* every final layer has num_features entries
RowsFit ==
    \A k \in 1..Len(sIn.results) :
        Len(FinalLayer(sIn.results, k)) = sIn.num_features

\* the row the claim gives to id: the final layer of the last result that
\* carries id, zeros when no result does
ClaimedRow(id) ==
    LET rs == sIn.results
        carriers == {k \in 1..Len(rs) : rs[k].cid = id}
    IN  IF carriers = {}
        THEN [j \in 1..sIn.num_features |-> Num(0)]
        ELSE FinalLayer(rs, CHOOSE k \in carriers : \A j \in carriers : j <= k)

\* with every id in the row range the matrix is built as claimed
RowsAsClaimed ==
    (SpreadCalled /\ RowsFit /\ \A k \in 1..Len(sIn.results) :
                                   InRowRange(sIn.results[k].cid))
        => /\ sOut.outcome = "returned"
           /\ \A id \in 0..(sIn.num_clients - 1) : sOut.matrix[id] = ClaimedRow(id)

\* an id outside the row range makes the call fail
OutsideIdFails ==
    (SpreadCalled /\ \E k \in 1..Len(sIn.results) :
                        ~InRowRange(sIn.results[k].cid))
        => sOut.outcome # "returned"

\* C11: the matrix aggregate_and_spreadout builds holds, for every id in
\* results, the final layer of the last result carrying that id, and zeros
\* for every other row; an id outside the rows 0..num_clients-1 makes the
\* call fail instead of writing some other row.
C11_EmbeddingMatrix == RowsAsClaimed /\ OutsideIdFails

\* an id at or above num_clients or below -num_clients makes the call fail
FarIdFails ==
    (SpreadCalled /\ \E k \in 1..Len(sIn.results) :
                        \/ sIn.results[k].cid >= sIn.num_clients
                        \/ sIn.results[k].cid < -sIn.num_clients)
        => sOut.outcome \in {"IndexError", "ValueError"}

\* the results without their final layers and client ids: what aggregate()
\* would be given for the layers below the embedding
BodyResults ==
    [c \in 1..Len(sIn.results) |->
        [w |-> SubSeq(sIn.results[c].w, 1, Len(sIn.results[c].w) - 1),
         n |-> sIn.results[c].n]]

\* C12: for results whose ParameterSets all have L layers (and whose sample
\* counts are not all 0), a returning aggregate_and_spreadout returns exactly L
\* layers; each layer below the last is the sample-count-weighted average of
\* the clients' layer, as aggregate computes it from the layers and counts
\* alone; the last layer is the row-normalized embedding matrix, and the
\* second component returned is that same matrix.
C12_OutputStructure ==
    (/\ SpreadCalled
     /\ sOut.outcome = "returned"
     /\ sIn.results # <<>>
     /\ SameLayerCounts(sIn.results)
     /\ SumSeq([c \in 1..Len(sIn.results) |-> sIn.results[c].n]) > 0)
    => LET L == Len(sIn.results[1].w)
       IN  /\ Len(sOut.value) = L
           /\ \A i \in 1..(L - 1) :
                /\ IsWeightedMean(sOut.value[i], BodyResults, i)
                /\ sOut.value[i] = aggregate(BodyResults).value[i]
           /\ sOut.value[L].op = "F.normalize"
           /\ sOut.value[L].of.op = "SGD.step"
           /\ sOut.value[L].of.of = sOut.matrix
           /\ sOut.embeddings = sOut.value[L]

\* clients 0 and 1 sent [2.0] with n=1 and [4.0] with n=3 below their
\* embeddings: two layers come back, the first is [3.5], the second is the
\* normalized matrix, which is also the second component
C12_Witness ==
    /\ SpreadCalled
    /\ sIn.num_clients = 2 /\ sIn.num_features = 2
    /\ sIn.results =
         << [w |-> <<Num(2), <<Num(1), Num(0)>> >>, n |-> 1, cid |-> 0],
            [w |-> <<Num(4), <<Num(0), Num(1)>> >>, n |-> 3, cid |-> 1] >>
    /\ sOut.outcome = "returned"
    /\ sOut.value[1] = Fin(7, 2)
    /\ sOut.value[2] = sOut.embeddings
    /\ sOut.matrix = (0 :> <<Num(1), Num(0)>>) @@ (1 :> <<Num(0), Num(1)>>)

-----------------------------------------------------------------------------
(* Specification of aggregate_qffl() as a pure function.                   *)

QParamSets == SeqsOf({Num(4)}, 1, MaxLayers)
QDeltaSets == SeqsOf({Num(0), Num(2)}, 1, MaxLayers)
QWeights == {0, 1}

InitQffl ==
    /\ \E kd \in 0..MaxClients, kh \in 0..MaxClients :
          qIn \in [parameters : QParamSets,
                   deltas : [1..kd -> QDeltaSets],
                   hs : [1..kh -> QWeights]]
    /\ qOut = NotCalled
    /\ AggIdle /\ SpreadIdle /\ FitIdle /\ OrchIdle

CallAggregateQffl ==
    /\ qOut = NotCalled
    /\ qOut' = aggregate_qffl(qIn.parameters, qIn.deltas, qIn.hs)
    /\ UNCHANGED <<qIn, aggVars, spreadVars, fitVars, orchVars>>

NextQffl == CallAggregateQffl

SpecQffl == InitQffl /\ [][NextQffl]_vars

QfflCalled == qOut # NotCalled /\ qOut # Idle

\* C9: aggregate_qffl called with len(deltas) # len(hs) fails and returns no
\* ParameterSet.
C9_QfflLengthGuard ==
    (QfflCalled /\ Len(qIn.deltas) # Len(qIn.hs))
    => qOut.outcome # "returned"

-----------------------------------------------------------------------------
(* Specification of Client.fit().                                          *)

ConfigKeys == {"local_epochs", "batch_size", "lr", "weight_decay",
               "criterion_name", "scale", "margin"}
FitConfigs == [has : SUBSET ConfigKeys,
               criterion_name : {"CrossEntropy", "ArcFace", "Triplet"},
               scale : {"None", "30.0"},
               margin : {"None", "0.5"}]
TrainedWeights == {<<Num(0)>>, <<Num(2)>>}

InitFit ==
    /\ fitKind \in {"FlowerFaceClient", "FlowerFaceRayClient"}
    /\ fitIns \in [parameters : {<<Num(4)>>}, config : FitConfigs]
    /\ fitNet = <<Num(2)>>
    /\ fitOut = NotCalled
    /\ AggIdle /\ QfflIdle /\ SpreadIdle /\ OrchIdle

CallFit ==
    /\ fitOut = NotCalled
    /\ \E trained \in TrainedWeights, n \in SampleCounts :
          LET r == fit(fitKind, fitNet, fitIns, trained, n)
          IN  /\ fitOut' = r
              /\ fitNet' = r.net
    /\ UNCHANGED <<fitKind, fitIns, aggVars, qVars, spreadVars, orchVars>>

NextFit == CallFit

SpecFit == InitFit /\ [][NextFit]_vars

FitCalled == fitOut # NotCalled /\ fitOut # Idle

InSeq(x, s) == \E i \in 1..Len(s) : s[i] = x

\* C10: when the dispatched config selects ArcFace and 'scale' or 'margin' is
\* absent, fit fails, returns no result, and has neither overwritten the
\* local model weights, nor built the data loader, nor invoked training.
C10_ConfigValidatedFirst ==
    (/\ FitCalled
     /\ "criterion_name" \in fitIns.config.has
     /\ fitIns.config.criterion_name = "ArcFace"
     /\ ("scale" \notin fitIns.config.has \/ "margin" \notin fitIns.config.has))
    => /\ fitOut.outcome # "returned"
       /\ ~InSeq("set_weights", fitOut.steps)
       /\ ~InSeq("DataLoader", fitOut.steps)
       /\ ~InSeq("train", fitOut.steps)
       /\ fitNet = <<Num(2)>>

-----------------------------------------------------------------------------
(* The server scripts: strategy configuration.                             *)

Servers == {"face_verification", "local"}

\* FedAvg(fraction_fit=1, ...)
fraction_fit == 1

\* FedAvg(min_fit_clients=...): 1 in both scripts
min_fit_clients_one(srv) == 1

\* FedAvg(min_fit_clients=...): one more than there are clients
min_fit_clients_too_many(srv) == NumClients + 1

\* FedAvg(min_fit_clients=...)
min_fit_clients(srv) == IF srv = "face_verification" THEN NumClients ELSE 1

\* FedAvg(min_available_clients=args.num_clients)
min_available_clients == NumClients

\* FedAvg(initial_parameters=init_parameters): the weights of the freshly
\* loaded model, here 1.0 in each of its layers
InitialParameterSets == {[i \in 1..k |-> Num(1)] : k \in 1..2}

-----------------------------------------------------------------------------
(* The round orchestrator (spec.md 4.3, 5 and 7).                          *)

Clients == 1..min_available_clients

\* the clients selected for fit: the configured fraction of those available
SelectedForFit == 1..(fraction_fit * min_available_clients)

NotSent == <<>>

\* What a client's local training does to the weights it received.
LocalUpdates == {"unchanged", "zeros", "twos"}

TrainedFrom(received, upd) ==
    CASE upd = "unchanged" -> received
      [] upd = "zeros" -> [i \in 1..Len(received) |-> Num(0)]
      [] OTHER -> [i \in 1..Len(received) |-> Num(2)]

InitOrch ==
    /\ server \in Servers
    /\ numExamples \in [Clients -> {0, 1, 2}]
    /\ phase = "AwaitingFit"
    /\ rnd = 1
    /\ globalParams \in InitialParameterSets
    /\ sent = [c \in Clients |-> NotSent]
    /\ pending = {}
    /\ results = <<>>
    /\ failed = {}
    /\ aggRound = 0
    /\ lastAggOut = <<>>
    /\ AggIdle /\ QfflIdle /\ SpreadIdle /\ FitIdle

\* a dispatch that sends every client the parameters the session started with
FitInstructionsStale(g) ==
    [c \in Clients |->
        IF c \in SelectedForFit THEN [i \in 1..Len(g) |-> Num(1)] ELSE NotSent]

\* the parameters the dispatch of round instructions sends to each client,
\* g being the global ParameterSet
FitInstructions(g) ==
    [c \in Clients |-> IF c \in SelectedForFit THEN g ELSE NotSent]

Dispatched == \E c \in Clients : sent[c] # NotSent

\* AwaitingFit: broadcast the global ParameterSet to the selected clients
DispatchFit ==
    /\ phase = "AwaitingFit"
    /\ ~Dispatched
    /\ sent' = FitInstructions(globalParams)
    /\ pending' = SelectedForFit
    /\ results' = <<>>
    /\ failed' = {}
    /\ UNCHANGED <<server, numExamples, phase, rnd, globalParams, aggRound,
                   lastAggOut, aggVars, qVars,
                   spreadVars, fitVars>>

\* a client returns its ClientResult: updated parameters and len(trainset)
ClientReturn(c) ==
    /\ phase = "AwaitingFit"
    /\ c \in pending
    /\ \E upd \in LocalUpdates :
          results' = Append(results, [cid |-> c,
                                      w |-> TrainedFrom(sent[c], upd),
                                      n |-> numExamples[c]])
    /\ pending' = pending \ {c}
    /\ UNCHANGED <<server, numExamples, phase, rnd, globalParams, sent, failed,
                   aggRound, lastAggOut, aggVars, qVars,
                   spreadVars, fitVars>>

\* a client's fit raises or does not answer in time: a missing ClientResult
ClientFail(c) ==
    /\ phase = "AwaitingFit"
    /\ c \in pending
    /\ failed' = failed \cup {c}
    /\ pending' = pending \ {c}
    /\ UNCHANGED <<server, numExamples, phase, rnd, globalParams, sent, results,
                   aggRound, lastAggOut, aggVars, qVars,
                   spreadVars, fitVars>>

\* the barrier: every selected client has returned or failed
CollectFit ==
    /\ phase = "AwaitingFit"
    /\ Dispatched
    /\ pending = {}
    /\ phase' = IF Len(results) >= min_fit_clients(server)
                THEN "Aggregating"
                ELSE "Failed"               \* InsufficientClientsError
    /\ UNCHANGED <<server, numExamples, rnd, globalParams, sent, pending,
                   results, failed, aggRound, lastAggOut, aggVars, qVars,
                   spreadVars, fitVars>>

\* Aggregating: the new global ParameterSet is what aggregate returns; an
\* aggregation error aborts the round and leaves the global ParameterSet
Aggregate ==
    /\ phase = "Aggregating"
    /\ LET out == aggregate([k \in 1..Len(results) |->
                                [w |-> results[k].w, n |-> results[k].n]])
       IN  /\ aggRound' = rnd
           /\ IF out.outcome = "returned"
              THEN /\ globalParams' = out.value
                   /\ lastAggOut' = out.value
                   /\ phase' = "AwaitingEvaluate"
              ELSE /\ UNCHANGED <<globalParams, lastAggOut>>
                   /\ phase' = "Aborted"
    /\ UNCHANGED <<server, numExamples, rnd, sent, pending, results, failed,
                   aggVars, qVars,
                   spreadVars, fitVars>>

\* AwaitingEvaluate: the evaluation passes change no session state; then the
\* next round starts, or the session is done after round num_rounds
EvaluateRound ==
    /\ phase = "AwaitingEvaluate"
    /\ IF rnd < NumRounds
       THEN /\ rnd' = rnd + 1
            /\ phase' = "AwaitingFit"
            /\ sent' = [c \in Clients |-> NotSent]
       ELSE /\ phase' = "Done"
            /\ UNCHANGED <<rnd, sent>>
    /\ UNCHANGED <<server, numExamples, globalParams, pending, results, failed,
                   aggRound, lastAggOut, aggVars, qVars,
                   spreadVars, fitVars>>

Next ==
    \/ DispatchFit
    \/ \E c \in Clients : ClientReturn(c)
    \/ \E c \in Clients : ClientFail(c)
    \/ CollectFit
    \/ Aggregate
    \/ EvaluateRound

Spec == InitOrch /\ [][Next]_vars

\* The sessions on which progress is checked: those whose clients hold 0 or
\* 1 examples (no step of the orchestrator depends on the values aggregated).
InitLive ==
    /\ InitOrch
    /\ \A c \in Clients : numExamples[c] <= 1

\* the server loop keeps running, and every dispatched client answers or is
\* given up
LiveSpec ==
    /\ InitLive /\ [][Next]_vars
    /\ WF_vars(DispatchFit)
    /\ WF_vars(CollectFit)
    /\ WF_vars(Aggregate)
    /\ WF_vars(EvaluateRound)
    /\ \A c \in Clients : WF_vars(ClientReturn(c) \/ ClientFail(c))

-----------------------------------------------------------------------------
(* Properties of the rounds.                                               *)

TotalExamples == SumSeq([k \in 1..Len(results) |-> results[k].n])

\* C1: the ParameterSet dispatched to every client selected for fit in round
\* r+1 is the value the aggregation step returned for round r, whole, and in
\* round 1 it is the initial parameters; it does not change while the round
\* is collecting results.
C1_RoundBarrier ==
    (phase = "AwaitingFit" /\ Dispatched)
    => /\ aggRound = rnd - 1
       /\ \A c \in SelectedForFit :
             /\ sent[c] # NotSent
             /\ sent[c] = globalParams
             /\ rnd = 1 => sent[c] \in InitialParameterSets
             /\ rnd > 1 => sent[c] = lastAggOut

\* round 2 has dispatched the output of round 1's aggregation, which differs
\* from the initial parameters, and every client has answered
C1_Witness ==
    /\ phase = "AwaitingFit"
    /\ rnd = 2
    /\ pending = {}
    /\ Len(results) = NumClients
    /\ \A c \in SelectedForFit : sent[c] = lastAggOut
    /\ lastAggOut \notin InitialParameterSets
    /\ Len(lastAggOut) = 2

\* C5: aggregation is entered only after every selected client has returned
\* or been counted as failed and at least the configured minimum (num_clients
\* in the face-verification server, 1 in the local server) have returned;
\* with fewer the round fails and aggregation is not invoked for it.
C5_NoPartialAggregation ==
    /\ (phase = "Aggregating" \/ aggRound = rnd)
       => /\ pending = {}
          /\ \A c \in SelectedForFit : sent[c] # NotSent
          /\ Len(results) + Cardinality(failed) = Cardinality(SelectedForFit)
          /\ server = "face_verification" => Len(results) = NumClients
          /\ server = "local" => Len(results) >= 1
    /\ phase = "Failed"
       => /\ aggRound < rnd
          /\ pending = {}
          /\ server = "face_verification" => Len(results) < NumClients
          /\ server = "local" => Len(results) = 0

\* the face-verification server has failed a round in which a client returned
\* and another did not; nothing was aggregated
C5_Witness ==
    /\ phase = "Failed"
    /\ server = "face_verification"
    /\ Len(results) >= 1
    /\ failed # {}
    /\ aggRound < rnd

\* C6: a round that ends in an aggregation-time error (zero total sample
\* count, insufficient clients) or is aborted leaves the global ParameterSet
\* as it was.
C6_ErrorsKeepGlobal ==
    [][(\/ phase = "Aggregating" /\ TotalExamples = 0
        \/ phase' \in {"Failed", "Aborted"})
       => globalParams' = globalParams]_vars

PhaseSteps ==
    {<<"AwaitingFit", "Aggregating">>, <<"Aggregating", "AwaitingEvaluate">>,
     <<"AwaitingEvaluate", "AwaitingFit">>, <<"AwaitingEvaluate", "Done">>,
     <<"AwaitingFit", "Failed">>, <<"Aggregating", "Aborted">>}

AllUnchanged ==
    /\ results # <<>>
    /\ \A k \in 1..Len(results) :
          results[k].w = sent[results[k].cid] /\ results[k].n > 0

\* round 1 of the scenario: from [1.0], client 1 returned ([0.0], 1) and
\* client 2 returned ([2.0], 1)
ScenarioRound1 ==
    /\ rnd = 1
    /\ Len(results) = 2
    /\ \A c \in SelectedForFit : sent[c] = <<Num(1)>>
    /\ \E k1, k2 \in 1..2 :
          /\ results[k1] = [cid |-> 1, w |-> <<Num(0)>>, n |-> 1]
          /\ results[k2] = [cid |-> 2, w |-> <<Num(2)>>, n |-> 1]

\* C8: after round 1 of the scenario the global ParameterSet is [1.0]; after a
\* round in which every client returned the global it received unchanged,
\* with positive sample counts, the global ParameterSet is unchanged.
C8_EndToEnd ==
    (phase \in {"AwaitingEvaluate", "Done"} /\ aggRound = rnd)
    => /\ ScenarioRound1 => globalParams = <<Num(1)>>
       /\ AllUnchanged => \A c \in SelectedForFit : globalParams = sent[c]

\* round 2 of the scenario: both clients returned [1.0] unchanged with n = 1
\* and the global ParameterSet is still [1.0]
C8_Witness ==
    /\ phase \in {"AwaitingEvaluate", "Done"}
    /\ rnd = 2 /\ aggRound = 2
    /\ AllUnchanged
    /\ Len(results) = 2
    /\ \A k \in 1..2 : results[k].w = <<Num(1)>> /\ results[k].n = 1
    /\ globalParams = <<Num(1)>>

====
